---------------------------- MODULE Spec2Model ----------------------------
(***************************************************************************)
(* A model of the playlist splitter's feature builders and k-means         *)
(* trainer (src/ml/train_kmeans.py) and of the two heuristic estimators    *)
(* of src/utils/SpotifyFeaturesDSP.py (key_and_mode, time_signature_guess).*)
(*                                                                         *)
(* Python values read from JSON are records [t, n, s, d]: t is the type    *)
(* tag, n the number (or the length of a list), s the string and d the     *)
(* mapping of a dict.  Floats are integers of a fixed unit.                *)
(***************************************************************************)
EXTENDS Integers, Sequences, FiniteSets, TLC

VARIABLES
    call,          \* the last call of a pure function: [fn, arg, ret]
    pc,            \* position of main() in its run
    tracks,        \* json.loads(inp.read_text()): the catalog
    k,             \* args.k
    cap,           \* args.silhouette_sample
    feat_dicts,    \* one feature map per track
    vec,           \* DictVectorizer: the fitted feature names
    X,             \* the vectorized matrix, one row per track
    scaler,        \* StandardScaler: scale_
    km,            \* MiniBatchKMeans: [labels, cluster_centers_]
    idx,           \* the silhouette sample's track indices
    sil,           \* the silhouette estimate or None
    assignments,   \* cluster_assignments.json
    model,         \* kmeans_model.json
    prev           \* what the previous run of main() on this input exported

mainVars == <<pc, tracks, k, cap, feat_dicts, vec, X, scaler, km, idx, sil,
              assignments, model, prev>>
vars == <<call, mainVars>>

-----------------------------------------------------------------------------
(* Python values *)

EmptyDict == <<>>
None == [t |-> "null", n |-> 0, s |-> "", d |-> EmptyDict]
Num(x) == [t |-> "num", n |-> x, s |-> "", d |-> EmptyDict]
Bool(b) == [t |-> "bool", n |-> IF b THEN 1 ELSE 0, s |-> "", d |-> EmptyDict]
Str(x) == [t |-> "str", n |-> 0, s |-> x, d |-> EmptyDict]
List(len) == [t |-> "list", n |-> len, s |-> "", d |-> EmptyDict]
Dict(f) == [t |-> "dict", n |-> 0, s |-> "", d |-> f]

IsDict(v) == v.t = "dict"

\* dict.get(key): the value, or None for a missing key
Get(v, key) == IF key \in DOMAIN v.d THEN v.d[key] ELSE None

\* Python's truth value of an object
Truthy(v) ==
    CASE v.t = "null" -> FALSE
      [] v.t = "bool" -> v.n = 1
      [] v.t = "num"  -> v.n # 0
      [] v.t = "str"  -> v.s # ""
      [] v.t = "list" -> v.n > 0
      [] v.t = "dict" -> DOMAIN v.d # {}

\* a or b
Or(a, b) == IF Truthy(a) THEN a ELSE b

\* float(str): the strings of the model that parse as a number
FloatOfStr == ("7" :> 7) @@ ("0" :> 0) @@ ("-2" :> -2)

\* str(number) for the numbers of the model
StrOfNum == (0 :> "0.0") @@ (1 :> "1") @@ (3 :> "3") @@ (7 :> "7") @@ (-2 :> "-2")

\* f"{val}": the formatting of a value inside an f-string
Format(v) ==
    CASE v.t = "str"  -> v.s
      [] v.t = "num"  -> StrOfNum[v.n]
      [] v.t = "bool" -> IF v.n = 1 THEN "True" ELSE "False"
      [] v.t = "null" -> "None"
      [] v.t = "list" -> IF v.n = 0 THEN "[]" ELSE "[...]"
      [] v.t = "dict" -> IF DOMAIN v.d = {} THEN "{}" ELSE "{...}"

-----------------------------------------------------------------------------
(* train_kmeans.py: the feature builders *)

safe_num(x) ==
    CASE x.t = "null" -> None
      [] x.t = "num"  -> Num(x.n)
      [] x.t = "bool" -> Num(x.n)
      [] x.t = "str"  -> IF x.s \in DOMAIN FloatOfStr THEN Num(FloatOfStr[x.s]) ELSE None
      [] x.t = "list" -> None
      [] x.t = "dict" -> None

\* the function a set of <<name, value>> pairs with distinct names stands for
MapOf(pairs) ==
    [nm \in {p[1] : p \in pairs} |-> (CHOOSE p \in pairs : p[1] = nm)[2]]

Attrs == <<"energy", "valence", "danceability", "tempo", "popularity", "year">>

\* the flag taken from the raw attribute instead of the converted one
extract_spotify_features_rawflag(track) ==
    MapOf(UNION {
        LET v == safe_num(Get(track, Attrs[i]))
        IN  { <<"sp__" \o Attrs[i], IF v = None THEN 0 ELSE v.n>>,
              <<"sp__has_" \o Attrs[i], IF Get(track, Attrs[i]) = None THEN 0 ELSE 1>> }
        : i \in DOMAIN Attrs })

extract_spotify_features(track) ==
    MapOf(UNION {
        LET v == safe_num(Get(track, Attrs[i]))
        IN  { <<"sp__" \o Attrs[i], IF v = None THEN 0 ELSE v.n>>,
              <<"sp__has_" \o Attrs[i], IF v = None THEN 0 ELSE 1>> }
        : i \in DOMAIN Attrs })

\* lines 44-56: the features of one classifier entry that is a dict
ClfFeatures(clf_name, clf_obj) ==
    LET probs == Or(Get(clf_obj, "all"), Get(clf_obj, "probabilities"))
    IN  IF IsDict(probs)
        THEN { <<"ab__" \o clf_name \o "__" \o cls_name, safe_num(probs.d[cls_name]).n>>
               : cls_name \in {c \in DOMAIN probs.d : safe_num(probs.d[c]) # None} }
        ELSE LET val == Get(clf_obj, "value")
                 p == safe_num(Get(clf_obj, "probability"))
             IN  IF val # None /\ p # None
                 THEN { <<"ab__" \o clf_name \o "__" \o Format(val), p.n>> }
                 ELSE {}

Returned(v) == [raised |-> FALSE, value |-> v]
Raised == [raised |-> TRUE, value |-> EmptyDict]

extract_ab_features(track) ==
    LET brainz == Or(Get(track, "brainz"), Dict(EmptyDict))
    IN  IF ~IsDict(brainz) THEN Raised    \* brainz.get: AttributeError
        ELSE
        LET ab == Get(brainz, "acousticHighLevel")
        IN  IF ~IsDict(ab) THEN Returned(EmptyDict)
            ELSE
            LET high0 == Get(ab, "highlevel")
                high == IF IsDict(high0) THEN high0 ELSE ab
                out == MapOf(UNION { ClfFeatures(c, high.d[c])
                                     : c \in {c \in DOMAIN high.d : IsDict(high.d[c])} })
            IN  Returned(("ab__has_acousticbrainz" :> 1) @@ out)

featurize_track(track) ==
    LET ab == extract_ab_features(track)
    IN  IF ab.raised THEN Raised
        ELSE Returned(ab.value @@ extract_spotify_features(track))

-----------------------------------------------------------------------------
(* SpotifyFeaturesDSP.py: key_and_mode and time_signature_guess *)

RECURSIVE SumUpTo(_, _)
SumUpTo(f, n) == IF n = 0 THEN 0 ELSE f[n] + SumUpTo(f, n - 1)
\* the sum of a sequence
Sum(f) == SumUpTo(f, Len(f))

Abs(x) == IF x < 0 THEN -x ELSE x

\* the Krumhansl templates, in hundredths
major == <<635, 223, 348, 233, 438, 409, 252, 519, 239, 366, 229, 288>>
minor == <<633, 268, 352, 538, 260, 353, 254, 475, 398, 269, 334, 317>>

\* np.roll(template, r): element i (from 0) is template[(i - r) mod 12]
Roll(template, r) == [i \in 1..12 |-> template[((i - 1 - r) % 12) + 1]]
Dot(a, b) == Sum([i \in 1..12 |-> a[i] * b[i]])

\* corrs of best_corr: np.dot(chroma_mean, np.roll(template / template.sum(), r))
\* for each rotation r and the normalised chroma_mean, in units of
\* 1 / (major.sum() * minor.sum() * (sum(chroma) + 1e-12)): the same positive
\* unit for both families, so that scores compare as the floats do
Corrs(chroma, template) ==
    LET other == IF template = major THEN Sum(minor) ELSE Sum(major)
    IN  [r \in 0..11 |-> Dot(chroma, Roll(template, r)) * other]

\* np.argmax: the first index of a maximal element
ArgMax(corrs) ==
    CHOOSE r \in DOMAIN corrs :
        /\ \A q \in DOMAIN corrs : corrs[q] <= corrs[r]
        /\ \A q \in DOMAIN corrs : q < r => corrs[q] < corrs[r]

\* the rotation of least correlation
best_corr_argmin(chroma, template) ==
    LET corrs == Corrs(chroma, template)
        r == CHOOSE r \in DOMAIN corrs : \A q \in DOMAIN corrs : corrs[q] >= corrs[r]
    IN  <<r, corrs[r]>>

best_corr(chroma, template) ==
    LET corrs == Corrs(chroma, template)
        k_best == ArgMax(corrs)
    IN  <<k_best, corrs[k_best]>>

key_and_mode(chroma) ==
    LET M == best_corr(chroma, major)
        m == best_corr(chroma, minor)
    IN  IF M[2] >= m[2]
        THEN [key |-> M[1], mode |-> 1, conf |-> M[2] - m[2]]
        ELSE [key |-> m[1], mode |-> 0, conf |-> m[2] - M[2]]

\* fewer beats than this give the default guess
MinBeats == 8
\* accents are in units of 1e-7, in which the threshold 1e-6 on np.std is 10
StdThreshold == 10
\* len(ac) at most this gives the default guess
MinLags == 5

\* beat_env - np.mean(beat_env), times len(beat_env)
Centred(env) ==
    LET total == Sum(env)
        L == Len(env)
    IN  [i \in 1..L |-> L * env[i] - total]

\* np.std(beat_env) < 1e-6 for the centred accents:
\* sqrt(sum(c^2) / L) / L < StdThreshold for c = Centred(env), L = len(env)
StdBelowThreshold(env) ==
    LET c == Centred(env)
        L == Len(env)
    IN  Sum([i \in 1..L |-> c[i] * c[i]]) < StdThreshold * StdThreshold * L * L * L

\* np.correlate(beat_env, beat_env, "full")[len // 2:]: the autocorrelation at
\* the lags 0 .. L-1 (a sequence from 1), in units of (1e-7 / L)^2
AutoCorr(env) ==
    LET c == Centred(env)
        L == Len(env)
    IN  [lag1 \in 1..L |-> Sum([i \in 1..(L - lag1 + 1) |-> c[i] * c[i + lag1 - 1]])]

\* 1e-12 in the units of AutoCorr
Eps(env) == 100 * Len(env) * Len(env)

\* the confidence, in thousandths
Confidence(hi, lo, lag3, lag4, env) ==
    (1000 * (hi - lo)) \div (Abs(lag3) + Abs(lag4) + Eps(env))

DefaultGuess == [ts |-> 4, conf |-> 0]

\* the guess made from the lags the other way round
time_signature_guess_swapped(beats, beat_env) ==
    IF beats.none \/ beats.len < MinBeats THEN DefaultGuess
    ELSE IF StdBelowThreshold(beat_env) THEN DefaultGuess
    ELSE LET ac == AutoCorr(beat_env)
         IN  IF Len(ac) <= MinLags THEN DefaultGuess
             ELSE IF ac[5] > ac[4]
                  THEN [ts |-> 3, conf |-> Confidence(ac[5], ac[4], ac[4], ac[5], beat_env)]
                  ELSE [ts |-> 4, conf |-> Confidence(ac[4], ac[5], ac[4], ac[5], beat_env)]

\* beats: [none, len], the result of beat_track; beat_env: the accents per
\* beat that librosa.util.sync gives
time_signature_guess(beats, beat_env) ==
    IF beats.none \/ beats.len < MinBeats THEN DefaultGuess
    ELSE IF StdBelowThreshold(beat_env) THEN DefaultGuess
    ELSE LET ac == AutoCorr(beat_env)
             lag3 == IF Len(ac) > 3 THEN ac[4] ELSE 0
             lag4 == IF Len(ac) > 4 THEN ac[5] ELSE 0
         IN  IF Len(ac) <= MinLags THEN DefaultGuess
             ELSE IF lag3 > lag4
                  THEN [ts |-> 3, conf |-> Confidence(lag3, lag4, lag3, lag4, beat_env)]
                  ELSE [ts |-> 4, conf |-> Confidence(lag4, lag3, lag3, lag4, beat_env)]

-----------------------------------------------------------------------------
(* train_kmeans.py: main *)

\* the code points of the characters of a run of consecutive ones
Codes(run, first) ==
    [c \in {SubSeq(run, i, i) : i \in 1..Len(run)} |->
        first - 1 + (CHOOSE i \in 1..Len(run) : SubSeq(run, i, i) = c)]
\* ord(c), for the characters feature names are made of
CharCode ==
    Codes("-.", 45) @@ Codes("0123456789", 48) @@ Codes("ABCDEFGHIJKLMNOPQRSTUVWXYZ", 65)
    @@ Codes("[", 91) @@ Codes("]", 93) @@ Codes("_", 95)
    @@ Codes("abcdefghijklmnopqrstuvwxyz", 97) @@ Codes("{", 123) @@ Codes("}", 125)

RECURSIVE FirstDiff(_, _, _)
\* the first position from i at which a and b differ or one of them ends
FirstDiff(a, b, i) ==
    IF i > Len(a) \/ i > Len(b) \/ SubSeq(a, i, i) # SubSeq(b, i, i)
    THEN i ELSE FirstDiff(a, b, i + 1)

\* a < b for Python strings: by code point, a proper prefix first
StrLess(a, b) ==
    LET i == FirstDiff(a, b, 1)
    IN  IF i > Len(b) THEN FALSE
        ELSE IF i > Len(a) THEN TRUE
        ELSE CharCode[SubSeq(a, i, i)] < CharCode[SubSeq(b, i, i)]

\* the names in descending order
sorted_reverse(names) ==
    [p \in 1..Cardinality(names) |->
        CHOOSE nm \in names : Cardinality({m \in names : StrLess(nm, m)}) = p - 1]

\* sorted(names), as DictVectorizer (sort=True) orders its feature names
sorted(names) ==
    [p \in 1..Cardinality(names) |->
        CHOOSE nm \in names : Cardinality({m \in names : StrLess(m, nm)}) = p - 1]

\* DictVectorizer.fit: the feature names of the feature maps
FitVectorizer(dicts) == sorted(UNION {DOMAIN dicts[i] : i \in DOMAIN dicts})

\* DictVectorizer.transform: one row per feature map, 0 for a missing name
Transform(names, dicts) ==
    [i \in DOMAIN dicts |->
        [j \in DOMAIN names |-> IF names[j] \in DOMAIN dicts[i] THEN dicts[i][names[j]] ELSE 0]]

\* StandardScaler(with_mean=False).fit: scale_[j] is the standard deviation of
\* column j, or 1 for a constant column.  Kept as n^2 * scale_[j]^2, an
\* integer: n * sum(x^2) - sum(x)^2, or n^2 for a constant column.
FitScaler(rows) ==
    LET n == Len(rows)
    IN  [j \in DOMAIN rows[1] |->
            LET s1 == Sum([i \in 1..n |-> rows[i][j]])
                s2 == Sum([i \in 1..n |-> rows[i][j] * rows[i][j]])
                v == n * s2 - s1 * s1
            IN  IF v = 0 THEN n * n ELSE v]

\* the catalog sizes and cluster counts MiniBatchKMeans accepts
FitAccepts(n, clusters) == clusters >= 1 /\ n >= clusters

\* the labellings fit_predict may give: a label in 0 .. k-1 per row, the
\* nearest centre's, so that equal rows have equal labels
Labellings(rows, clusters) ==
    LET distinct == {rows[i] : i \in DOMAIN rows}
    IN  { [i \in DOMAIN rows |-> g[rows[i]]] : g \in [distinct -> 0..(clusters - 1)] }

\* cluster_centers_: one row per cluster and one column per column of Xs;
\* an entry is kept as the sum of the cluster's unscaled values
Centers(rows, labels, clusters) ==
    [c \in 1..clusters |->
        [j \in DOMAIN rows[1] |->
            Sum([i \in DOMAIN rows |-> IF labels[i] = c - 1 THEN rows[i][j] ELSE 0])]]

\* fewer sampled tracks than this give no silhouette estimate
MinSilhouetteSample == 50
\* fewer clusters than this give no silhouette estimate
MinSilhouetteK == 2

Min(a, b) == IF a <= b THEN a ELSE b

\* the sample size without the cap
SampleSize_nocap(sample_cap, n) == n

\* sample_n
SampleSize(sample_cap, n) == Min(sample_cap, n)

RECURSIVE SubsetsOfSize(_, _)
\* the subsets of S with d elements
SubsetsOfSize(S, d) ==
    IF d = 0 THEN {{}}
    ELSE UNION { {T \cup {x} : x \in S \ T} : T \in SubsetsOfSize(S, d - 1) }

\* random.sample(range(n), sample_n): the sets of sample_n distinct indices it
\* may draw, each given by the n - sample_n indices it leaves out
Samples(n, sample_n) ==
    { (0..(n - 1)) \ left : left \in SubsetsOfSize(0..(n - 1), n - sample_n) }

RECURSIVE Newton(_, _)
Newton(v, x) ==
    LET y == (x + v \div x) \div 2
    IN  IF y >= x THEN x ELSE Newton(v, y)
\* floor(sqrt(v))
ISqrt(v) == IF v < 2 THEN v ELSE Newton(v, v)

\* the Euclidean distance of two rows of Xs, in hundredths: the columns are
\* divided by scale_, that is the squared differences by scale / n^2
Distance(xs, r1, r2) ==
    ISqrt(Sum([j \in DOMAIN r1 |->
        ((r1[j] - r2[j]) * (r1[j] - r2[j]) * xs.n * xs.n * 10000) \div xs.scale[j]]))

\* sklearn's silhouette_score(Xs[idx], labels[idx], metric="euclidean"):
\* raises unless the sample has 2 .. len(idx) - 1 distinct labels, else the mean
\* of (b - a) / max(a, b) over the sample, a the mean distance to the rest of
\* the own cluster and b the least mean distance to another cluster (0 for a
\* cluster of one).  In hundredths; equal (row, label) pairs are counted once
\* and weighted.
silhouette_score(xs, labels, sample) ==
    LET groups == {<<xs.rows[i + 1], labels[i + 1]>> : i \in sample}
        used == {g[2] : g \in groups}
        cnt == [g \in groups |-> Cardinality({i \in sample : <<xs.rows[i + 1], labels[i + 1]>> = g})]
        size == [l \in used |-> Cardinality({i \in sample : labels[i + 1] = l})]
        \* the summed distance of a member of g to the members of cluster l
        total(g, l) ==
            LET hs == {h \in groups : h[2] = l}
                order == CHOOSE f \in [1..Cardinality(hs) -> hs] :
                             \A x, y \in DOMAIN f : x # y => f[x] # f[y]
            IN  Sum([x \in DOMAIN order |-> cnt[order[x]] * Distance(xs, g[1], order[x][1])])
        \* the cluster other than g's of least mean distance to g
        nearest(g) ==
            CHOOSE l \in used \ {g[2]} :
                \A m \in used \ {g[2]} : total(g, l) * size[m] <= total(g, m) * size[l]
        \* (b - a) / max(a, b) for a member of g
        s(g) ==
            IF size[g[2]] = 1 THEN 0
            ELSE LET l == nearest(g)
                     aq == total(g, g[2]) * size[l]
                     bp == total(g, l) * (size[g[2]] - 1)
                     hi == IF aq >= bp THEN aq ELSE bp
                 IN  IF hi = 0 THEN 0 ELSE (100 * (bp - aq)) \div hi
        all == CHOOSE f \in [1..Cardinality(groups) -> groups] :
                   \A x, y \in DOMAIN f : x # y => f[x] # f[y]
    IN  IF Cardinality(used) < 2 \/ Cardinality(used) > Cardinality(sample) - 1
        THEN Raised
        ELSE Returned(Sum([x \in DOMAIN all |-> cnt[all[x]] * s(all[x])]) \div Cardinality(sample))

\* the records in the reverse of the input order
AssignmentsOf_reversed(catalog, labels) ==
    [i \in 1..Min(Len(catalog), Len(labels)) |->
        [spotifyId |-> Get(catalog[Len(catalog) + 1 - i], "id"),
         name |-> Get(catalog[Len(catalog) + 1 - i], "name"),
         artists |-> Get(catalog[Len(catalog) + 1 - i], "artists"),
         cluster |-> labels[i]]]

\* lines 125-132: one record per (track, label) of zip(tracks, labels)
AssignmentsOf(catalog, labels) ==
    [i \in 1..Min(Len(catalog), Len(labels)) |->
        [spotifyId |-> Get(catalog[i], "id"),
         name |-> Get(catalog[i], "name"),
         artists |-> Get(catalog[i], "artists"),
         cluster |-> labels[i]]]

\* Xs = scaler.fit_transform(X): the rows of X, each column to be divided by
\* its scale
Xs == [rows |-> X, n |-> Len(X), scale |-> scaler]

NoPrev == [ran |-> FALSE, labels |-> <<>>, idx |-> {}, sil |-> None]

\* line 99
Featurize ==
    /\ pc = "start"
    /\ IF \E i \in DOMAIN tracks : featurize_track(tracks[i]).raised
       THEN pc' = "raised" /\ UNCHANGED feat_dicts
       ELSE /\ feat_dicts' = [i \in DOMAIN tracks |-> featurize_track(tracks[i]).value]
            /\ pc' = "featurized"
    /\ UNCHANGED <<call, tracks, k, cap, vec, X, scaler, km, idx, sil, assignments,
                   model, prev>>

\* lines 102-103; DictVectorizer raises on an empty sample sequence
Vectorize ==
    /\ pc = "featurized"
    /\ IF feat_dicts = <<>>
       THEN pc' = "raised" /\ UNCHANGED <<vec, X>>
       ELSE /\ vec' = FitVectorizer(feat_dicts)
            /\ X' = Transform(vec', feat_dicts)
            /\ pc' = "vectorized"
    /\ UNCHANGED <<call, tracks, k, cap, feat_dicts, scaler, km, idx, sil, assignments,
                   model, prev>>

\* lines 106-107
Scale ==
    /\ pc = "vectorized"
    /\ scaler' = FitScaler(X)
    /\ pc' = "scaled"
    /\ UNCHANGED <<call, tracks, k, cap, feat_dicts, vec, X, km, idx, sil, assignments,
                   model, prev>>

\* lines 110-111; random_state=42 makes a second run on the same input give
\* the same labels
Fit ==
    /\ pc = "scaled"
    /\ IF ~FitAccepts(Len(Xs.rows), k)
       THEN pc' = "raised" /\ UNCHANGED km
       ELSE /\ \E labels \in Labellings(Xs.rows, k) :
                  /\ prev.ran => labels = prev.labels
                  /\ km' = [labels |-> labels, cluster_centers_ |-> Centers(Xs.rows, labels, k)]
            /\ pc' = "clustered"
    /\ UNCHANGED <<call, tracks, k, cap, feat_dicts, vec, X, scaler, idx, sil,
                   assignments, model, prev>>

\* lines 114-122
Silhouette ==
    /\ pc = "clustered"
    /\ LET n == Len(Xs.rows)
           sample_n == SampleSize(cap, n)
       IN  IF sample_n >= MinSilhouetteSample /\ k >= MinSilhouetteK
           THEN \E sample \in Samples(n, sample_n) :
                    LET score == silhouette_score(Xs, km.labels, sample)
                    IN  /\ idx' = sample
                        /\ sil' = IF score.raised THEN None ELSE Num(score.value)
           ELSE idx' = {} /\ sil' = None
    /\ pc' = "scored"
    /\ UNCHANGED <<call, tracks, k, cap, feat_dicts, vec, X, scaler, km, assignments,
                   model, prev>>

\* lines 125-133
SaveAssignments ==
    /\ pc = "scored"
    /\ assignments' = AssignmentsOf(tracks, km.labels)
    /\ pc' = "assigned"
    /\ UNCHANGED <<call, tracks, k, cap, feat_dicts, vec, X, scaler, km, idx, sil,
                   model, prev>>

\* lines 136-144
ExportModel ==
    /\ pc = "assigned"
    /\ model' = [schema_version |-> 1, k |-> k, feature_names |-> vec, scale |-> scaler,
                 centroids |-> km.cluster_centers_, silhouette_sample |-> sil]
    /\ pc' = "done"
    /\ UNCHANGED <<call, tracks, k, cap, feat_dicts, vec, X, scaler, km, idx, sil,
                   assignments, prev>>

\* main is run once more on the same input, k and sample cap
Rerun ==
    /\ pc = "done" /\ ~prev.ran
    /\ prev' = [ran |-> TRUE, labels |-> km.labels, idx |-> idx, sil |-> sil]
    /\ pc' = "start"
    /\ feat_dicts' = <<>> /\ vec' = <<>> /\ X' = <<>> /\ scaler' = <<>>
    /\ km' = <<>> /\ idx' = {} /\ sil' = None /\ assignments' = <<>> /\ model' = <<>>
    /\ UNCHANGED <<call, tracks, k, cap>>

-----------------------------------------------------------------------------
(* The inputs of the feature builders *)

Absent == [t |-> "absent", n |-> 0, s |-> "", d |-> EmptyDict]

\* the dict with the keys of f whose value is not Absent
DictOf(f) == Dict([key \in {x \in DOMAIN f : f[x] # Absent} |-> f[key]])

AttrValues ==
    { Absent, None, Num(3), Num(0), Num(-2), Str("7"), Str("abc"), Str(""),
      Bool(TRUE), List(1), Dict(EmptyDict) }

\* the value the four attributes other than energy and year share
OtherAttrValues == {Absent, None, Num(3), Str("abc")}

\* a track record with the six attributes
SpotifyTrack(e, y, o) ==
    DictOf([energy |-> e, valence |-> o, danceability |-> o, tempo |-> o,
            popularity |-> o, year |-> y, name |-> Str("abc")])

ClassNames == {"rock", "pop"}
ProbValues == { Num(1), Num(0), Str("7"), Str("abc"), None, Dict(EmptyDict) }

\* class -> probability tables over at most two classes
Tables ==
    { DictOf([rock |-> a, pop |-> b]) : a \in ProbValues \cup {Absent},
                                        b \in {Absent, Num(3), Str("abc")} }

\* what may sit under "all" or "probabilities"
MaybeTables ==
    { Absent, None, Str("x"), Num(0), Num(1), List(0), Dict(EmptyDict),
      DictOf([rock |-> Num(1), pop |-> Str("abc")]), DictOf([pop |-> Num(3)]) }

ClfDicts ==
    { DictOf([all |-> a, probabilities |-> Absent, value |-> Absent, probability |-> Absent])
      : a \in Tables }
    \cup
    { DictOf([all |-> a, probabilities |-> p, value |-> v, probability |-> q])
      : a \in MaybeTables, p \in MaybeTables,
        v \in {Absent, None, Str("rock"), Num(1)},
        q \in {Absent, Num(3), Str("7"), Str("abc")} }

ClfObjs == ClfDicts \cup {None, Str("x"), Num(1), List(1)}

\* the second classifier of a two-classifier structure
SecondClfObjs ==
    { Absent, Str("x"), DictOf([all |-> DictOf([pop |-> Num(3)])]),
      DictOf([value |-> Str("pop"), probability |-> Num(1)]) }

\* acousticHighLevel with the classifiers genre and mood: in the documented
\* shape, flat, and flat beside a "highlevel" that is no dict
ABShapes == {"nested", "flat", "flat, highlevel null", "flat, highlevel str"}
AB(shape, genre, mood) ==
    LET high == DictOf([genre |-> genre, mood |-> mood])
    IN  CASE shape = "nested" -> DictOf([highlevel |-> high])
          [] shape = "flat" -> high
          [] shape = "flat, highlevel null" -> Dict(("highlevel" :> None) @@ high.d)
          [] shape = "flat, highlevel str" -> Dict(("highlevel" :> Str("x")) @@ high.d)

\* what else may sit under "acousticHighLevel" and under "brainz"
OtherABs == { Absent, None, Str("x"), Num(1), List(1) }
OtherBrainzs ==
    { Absent, None, Str("x"), Str(""), Num(0), Num(3), List(0), List(1),
      Bool(FALSE), Bool(TRUE), Dict(EmptyDict) }

ABTrack(ab) == DictOf([id |-> Str("x"), brainz |-> DictOf([acousticHighLevel |-> ab])])
BrainzTrack(brainz) == DictOf([id |-> Str("x"), brainz |-> brainz])

-----------------------------------------------------------------------------
(* The inputs of the estimators *)

\* the mean chroma energy of a pitch class
ChromaLevels == {0, 1}

\* the most beats beat_track finds
MaxBeats == 8
\* the accent of a beat, in units of 1e-7
AccentLevels == {0, 5, 50}

\* beat_track found n beats strictly inside the envelope, which sync cuts
\* into n + 1 segments
BeatInput(n, e) == [beats |-> [none |-> FALSE, len |-> n], beat_env |-> e]
\* beat_track gave no beats
NoBeats == [beats |-> [none |-> TRUE, len |-> 0], beat_env |-> <<>>]

-----------------------------------------------------------------------------
(* The inputs of main *)

\* the track records catalogs are made of: all attributes and no classifier
\* data; few attributes and a probability table; the flat classifier shape
\* with a value/probability pair; a "brainz" that is no dict
TrainTracks == <<
    DictOf([name |-> Str("abc"), artists |-> List(1), energy |-> Num(3), valence |-> Num(1),
            danceability |-> Num(2), tempo |-> Num(3), popularity |-> Num(0), year |-> Num(2)]),
    DictOf([name |-> Str("x"), artists |-> List(0), energy |-> None, valence |-> Str("abc"),
            brainz |-> DictOf([acousticHighLevel |-> AB("nested",
                DictOf([all |-> DictOf([rock |-> Num(1), pop |-> Num(0)])]), Absent)])]),
    DictOf([name |-> None, energy |-> Num(1), year |-> Num(3),
            brainz |-> DictOf([acousticHighLevel |-> AB("flat", Absent,
                DictOf([value |-> Str("pop"), probability |-> Num(1)]))])]),
    DictOf([name |-> Str("abc"), energy |-> Num(3), brainz |-> Str("x")]) >>

\* the most tracks of a small catalog
MaxSmall == 3
\* the longest run of tracks a large catalog repeats
MaxBase == 1
\* the most clusters asked for
MaxK == 2

\* the catalog of n tracks that repeats the tracks TrainTracks[base[1]],
\* TrainTracks[base[2]], ..., each with its own id
Catalog(base, n) ==
    [i \in 1..n |->
        Dict(("id" :> Str("id" \o ToString(i))) @@ TrainTracks[base[((i - 1) % Len(base)) + 1]].d)]

\* the three tracks that featurize
Mixed == <<1, 2, 3>>
LargeBases == UNION { [1..m -> DOMAIN TrainTracks] : m \in 1..MaxBase } \cup {Mixed}
LargeSizes == {MinSilhouetteSample - 1, MinSilhouetteSample, MinSilhouetteSample + 1}

\* the default of --silhouette_sample
DefaultSilhouetteSample == 1500
SampleCaps == {MinSilhouetteSample - 1, MinSilhouetteSample, DefaultSilhouetteSample}

-----------------------------------------------------------------------------
(* Calls of the pure functions *)

\* a call that has not run yet
Pending(fn, arg) == [fn |-> fn, arg |-> arg, done |-> FALSE, ret |-> Returned(EmptyDict)]
Done(c, ret) == [c EXCEPT !.done = TRUE, !.ret = ret]
NoCall == Pending("", None)

CallExtractSpotify ==
    /\ call.fn = "extract_spotify_features" /\ ~call.done
    /\ call' = Done(call, Returned(extract_spotify_features(call.arg)))
    /\ UNCHANGED mainVars

CallExtractAB ==
    /\ call.fn = "extract_ab_features" /\ ~call.done
    /\ call' = Done(call, extract_ab_features(call.arg))
    /\ UNCHANGED mainVars

CallKeyAndMode ==
    /\ call.fn = "key_and_mode" /\ ~call.done
    /\ call' = Done(call, key_and_mode(call.arg))
    /\ UNCHANGED mainVars

CallTimeSignatureGuess ==
    /\ call.fn = "time_signature_guess" /\ ~call.done
    /\ call' = Done(call, time_signature_guess(call.arg.beats, call.arg.beat_env))
    /\ UNCHANGED mainVars

\* main has computed nothing yet
Blank ==
    /\ feat_dicts = <<>> /\ vec = <<>> /\ X = <<>> /\ scaler = <<>> /\ km = <<>>
    /\ idx = {} /\ sil = None /\ assignments = <<>> /\ model = <<>> /\ prev = NoPrev

\* main is not run
Idle == pc = "idle" /\ tracks = <<>> /\ k = 0 /\ cap = 0 /\ Blank

InitFeat ==
    /\ \/ \E e \in AttrValues, y \in AttrValues, o \in OtherAttrValues :
              call = Pending("extract_spotify_features", SpotifyTrack(e, y, o))
       \/ \E shape \in ABShapes, genre \in ClfObjs \cup {Absent}, mood \in SecondClfObjs :
              call = Pending("extract_ab_features", ABTrack(AB(shape, genre, mood)))
       \/ \E ab \in OtherABs : call = Pending("extract_ab_features", ABTrack(ab))
       \/ \E brainz \in OtherBrainzs : call = Pending("extract_ab_features", BrainzTrack(brainz))
    /\ Idle
NextFeat == CallExtractSpotify \/ CallExtractAB
SpecFeat == InitFeat /\ [][NextFeat]_vars

InitDSP ==
    /\ \/ \E chroma \in [1..12 -> ChromaLevels] : call = Pending("key_and_mode", chroma)
       \/ \E n \in 0..MaxBeats : \E e \in [1..(n + 1) -> AccentLevels] :
              call = Pending("time_signature_guess", BeatInput(n, e))
       \/ call = Pending("time_signature_guess", NoBeats)
    /\ Idle
NextDSP == CallKeyAndMode \/ CallTimeSignatureGuess
SpecDSP == InitDSP /\ [][NextDSP]_vars

\* main starts on a catalog, a cluster count and a sample cap
InitMain ==
    /\ call = NoCall
    /\ pc = "start"
    /\ \/ \E n \in 0..MaxSmall : \E base \in [1..n -> DOMAIN TrainTracks] :
              tracks = Catalog(base, n)
       \/ \E base \in LargeBases, n \in LargeSizes : tracks = Catalog(base, n)
    /\ k \in 0..MaxK
    /\ cap \in SampleCaps
    /\ Blank

NextMain ==
    \/ Featurize \/ Vectorize \/ Scale \/ Fit \/ Silhouette \/ SaveAssignments \/ ExportModel
Spec == InitMain /\ [][NextMain]_vars

\* main is run twice on a large catalog, with two clusters and the sample
\* capped at the least size scored
InitRerun ==
    /\ call = NoCall
    /\ pc = "start"
    /\ \E base \in {<<1>>, Mixed}, n \in LargeSizes : tracks = Catalog(base, n)
    /\ k = MinSilhouetteK
    /\ cap = MinSilhouetteSample
    /\ Blank
NextRerun == NextMain \/ Rerun
SpecRerun == InitRerun /\ [][NextRerun]_vars

-----------------------------------------------------------------------------
(* Properties of the feature builders *)

\* a value float() accepts, and the number it gives
Convertible(x) == x.t \in {"num", "bool"} \/ (x.t = "str" /\ x.s \in DOMAIN FloatOfStr)
NumberOf(x) == IF x.t = "str" THEN FloatOfStr[x.s] ELSE x.n

SpotifyCall == call.fn = "extract_spotify_features" /\ call.done
ABCall == call.fn = "extract_ab_features" /\ call.done

\* C1: for each of the six numeric attributes extract_spotify_features emits
\* the value feature and the presence flag, and they agree: value 0.0 and
\* flag 0.0 when the attribute is missing, null or not convertible to a
\* number; the number and flag 1.0 when it is numeric.
C1_ValueAndFlagAgree ==
    SpotifyCall =>
        \A i \in DOMAIN Attrs :
            LET x == Get(call.arg, Attrs[i])
                out == call.ret.value
                value == "sp__" \o Attrs[i]
                has == "sp__has_" \o Attrs[i]
            IN  /\ {value, has} \subseteq DOMAIN out
                /\ IF Convertible(x)
                   THEN out[value] = NumberOf(x) /\ out[has] = 1
                   ELSE out[value] = 0 /\ out[has] = 0

\* a track with a missing, a non-numeric and a numeric attribute has been featurized
C1_Witness ==
    /\ SpotifyCall
    /\ "energy" \notin DOMAIN call.arg.d /\ call.ret.value["sp__has_energy"] = 0
    /\ Get(call.arg, "valence") = Str("abc") /\ call.ret.value["sp__has_valence"] = 0
    /\ Get(call.arg, "year") = Str("7") /\ call.ret.value["sp__year"] = 7
    /\ call.ret.value["sp__has_year"] = 1

\* C3: extract_ab_features never raises, whatever sits under the track's
\* "brainz" field.
C3_NeverRaises == ABCall => ~call.ret.raised

\* the classifier structure extract_ab_features iterates over, when there is one
Classifiers(track) ==
    LET brainz == Get(track, "brainz")
        ab == Get(brainz, "acousticHighLevel")
    IN  IF ~IsDict(brainz) \/ ~IsDict(ab) THEN EmptyDict
        ELSE IF IsDict(Get(ab, "highlevel")) THEN Get(ab, "highlevel").d ELSE ab.d

\* a classifier entry that is a mapping holding a probability table or a
\* value/probability pair
Recognized(e) ==
    /\ IsDict(e)
    /\ \/ IsDict(Get(e, "all"))
       \/ IsDict(Get(e, "probabilities"))
       \/ {"value", "probability"} \subseteq DOMAIN e.d

HasFlag(out) == "ab__has_acousticbrainz" \in DOMAIN out /\ out["ab__has_acousticbrainz"] # 0

\* C4: the classifier presence flag is 1.0 only when at least one classifier
\* entry of the track was recognized; otherwise it is absent or 0.0.
C4_FlagOnlyWhenRecognized ==
    (ABCall /\ ~call.ret.raised /\ HasFlag(call.ret.value)) =>
        \E c \in DOMAIN Classifiers(call.arg) : Recognized(Classifiers(call.arg)[c])

\* the features of a probability table: one per class with a numeric probability
TableFeatures(c, tab) ==
    { <<"ab__" \o c \o "__" \o cls, NumberOf(tab.d[cls])>>
      : cls \in {x \in DOMAIN tab.d : Convertible(tab.d[x])} }

\* the feature of a value/probability pair
PairFeatures(c, e) ==
    IF Get(e, "value") # None /\ Convertible(Get(e, "probability"))
    THEN { <<"ab__" \o c \o "__" \o Format(Get(e, "value")), NumberOf(Get(e, "probability"))>> }
    ELSE {}

HoldsTable(v) == IsDict(v)
HoldsNonEmptyTable(v) == IsDict(v) /\ DOMAIN v.d # {}

\* the feature sets the claim allows for classifier entry e, reading "holds a
\* table" as Holds: a table under either key when one is held (the one under
\* "probabilities" when "all" holds none), else the value/probability pair
Allowed(c, e, Holds(_)) ==
    LET tabs == {t \in {Get(e, "all"), Get(e, "probabilities")} : Holds(t)}
    IN  IF tabs # {} THEN {TableFeatures(c, t) : t \in tabs} ELSE {PairFeatures(c, e)}

\* the features of the result that belong to classifier c
FeaturesOf(out, c) ==
    LET pre == "ab__" \o c \o "__"
    IN  { <<nm, out[nm]>> : nm \in {x \in DOMAIN out :
                                    Len(x) >= Len(pre) /\ SubSeq(x, 1, Len(pre)) = pre} }

\* C5: for every classifier entry that is a mapping, a probability table under
\* "all" or under "probabilities" gives exactly one feature per class with a
\* numeric probability, a value/probability pair without a table gives the
\* (classifier, value) feature, and the table under "probabilities" is used
\* whenever "all" does not hold a table.  (An empty mapping may or may not
\* count as a table.)
C5_BothKeysBothShapes ==
    (ABCall /\ ~call.ret.raised) =>
        \A c \in DOMAIN Classifiers(call.arg) :
            LET e == Classifiers(call.arg)[c]
            IN  IsDict(e) =>
                    FeaturesOf(call.ret.value, c)
                        \in Allowed(c, e, HoldsTable) \cup Allowed(c, e, HoldsNonEmptyTable)

-----------------------------------------------------------------------------
(* Properties of the estimators *)

TSCall == call.fn = "time_signature_guess" /\ call.done
KeyCall == call.fn = "key_and_mode" /\ call.done

\* the autocorrelation of the mean-centred accents at a lag, times len(env)^2
Lag(env, lag) ==
    LET L == Len(env)
        S == Sum(env)
    IN  Sum([i \in 1..(L - lag) |-> (L * env[i] - S) * (L * env[i + lag] - S)])

\* C9: time_signature_guess returns a time signature in {3, 4}; exactly
\* (4, 0.0) with fewer than 8 beats and with an accent deviation below 1e-6;
\* and 3 only with at least 8 beats, a deviation of at least 1e-6 and an
\* autocorrelation at lag 3 strictly greater than at lag 4.
C9_TimeSignatureGuess ==
    TSCall =>
        LET beats == call.arg.beats
            env == call.arg.beat_env
            few == beats.none \/ beats.len < 8
        IN  /\ call.ret.ts \in {3, 4}
            /\ few => call.ret = [ts |-> 4, conf |-> 0]
            /\ (env # <<>> /\ StdBelowThreshold(env)) => call.ret = [ts |-> 4, conf |-> 0]
            /\ call.ret.ts = 3 =>
                   ~few /\ ~StdBelowThreshold(env) /\ Lag(env, 3) > Lag(env, 4)

\* a guess of 3 with positive confidence has been returned for 8 beats
C9_Witness ==
    /\ TSCall /\ call.arg.beats.len = 8
    /\ call.ret.ts = 3 /\ call.ret.conf > 0

\* a family's best score: the greatest correlation over the 12 rotations
Best(chroma, template) ==
    CHOOSE b \in {Corrs(chroma, template)[r] : r \in 0..11} :
        \A r \in 0..11 : Corrs(chroma, template)[r] <= b

\* what C10 says of a result, the mode being major when Wins(major's best,
\* minor's best)
KeyAndModeAsClaimed(chroma, ret, Wins(_, _)) ==
    LET bM == Best(chroma, major)
        bm == Best(chroma, minor)
    IN  /\ ret.key \in 0..11 /\ ret.mode \in {0, 1} /\ ret.conf >= 0
        /\ ret.mode = (IF Wins(bM, bm) THEN 1 ELSE 0)
        /\ Corrs(chroma, IF ret.mode = 1 THEN major ELSE minor)[ret.key]
              = (IF ret.mode = 1 THEN bM ELSE bm)
        /\ ret.conf = Abs(bM - bm)

Beats(a, b) == a > b
BeatsOrTies(a, b) == a >= b

\* C10 as stated: key in 0..11, mode in {0, 1}, confidence >= 0; the mode is
\* major when the major family's best score beats the minor family's and
\* minor otherwise; the key is the winning family's best rotation; the
\* confidence is the absolute gap of the two best scores.
C10_AsStated == KeyCall => KeyAndModeAsClaimed(call.arg, call.ret, Beats)

\* C10, amended: as stated, but the mode is major also when the two families'
\* best scores are equal.
C10_TiesAreMajor == KeyCall => KeyAndModeAsClaimed(call.arg, call.ret, BeatsOrTies)

\* a chroma profile whose two best scores tie has been classified as major
C10_Witness ==
    /\ KeyCall
    /\ Best(call.arg, major) = Best(call.arg, minor)
    /\ call.ret.mode = 1

-----------------------------------------------------------------------------
(* Properties of main *)

Exported == pc = "done"

\* a silhouette estimate in [-1, 1], in hundredths
InUnitRange(v) == v.t = "num" /\ v.n >= -100 /\ v.n <= 100

\* C2 as stated: the exported silhouette estimate is null whenever n < 50 or
\* k < 2, and otherwise a number in [-1, 1], never null, whatever the sample cap.
C2_AsStated ==
    Exported =>
        IF Len(tracks) < 50 \/ k < 2
        THEN model.silhouette_sample = None
        ELSE InUnitRange(model.silhouette_sample)

\* the sampled tracks' labels can be scored: they take at least 2 and at most
\* (sample size - 1) distinct values
Scorable ==
    LET used == {km.labels[i + 1] : i \in idx}
    IN  Cardinality(used) >= 2 /\ Cardinality(used) <= Cardinality(idx) - 1

\* C2, amended: the exported silhouette estimate is null whenever n < 50 or
\* k < 2 or the sample cap is below 50 or the sampled labels cannot be scored;
\* otherwise it is a number in [-1, 1].
C2_NullOrInRange ==
    Exported =>
        IF Len(tracks) < 50 \/ k < 2 \/ cap < 50
        THEN model.silhouette_sample = None
        ELSE /\ Cardinality(idx) = (IF cap < Len(tracks) THEN cap ELSE Len(tracks))
             /\ IF Scorable THEN InUnitRange(model.silhouette_sample)
                            ELSE model.silhouette_sample = None

\* 50 or more tracks in 2 clusters were exported without an estimate, though
\* the cap allowed 50 samples: the sampled labels could not be scored
C2_Witness ==
    /\ Exported /\ Len(tracks) >= 50 /\ k >= 2 /\ cap >= 50
    /\ ~Scorable /\ model.silhouette_sample = None

\* C6: the assignment document has exactly one record per input track, in
\* input order: record i carries the identifier, name and artists of track i
\* and the label of feature vector i, a label in 0 .. k-1.
C6_OneRecordPerTrackInOrder ==
    Exported =>
        /\ Len(assignments) = Len(tracks)
        /\ \A i \in DOMAIN tracks :
               /\ assignments[i].spotifyId = Get(tracks[i], "id")
               /\ assignments[i].name = Get(tracks[i], "name")
               /\ assignments[i].artists = Get(tracks[i], "artists")
               /\ assignments[i].cluster = km.labels[i]
               /\ assignments[i].cluster \in 0..(k - 1)

\* a catalog of two different tracks in two clusters has been exported
C6_Witness ==
    /\ Exported /\ Len(tracks) = 2
    /\ assignments[1].name # assignments[2].name
    /\ assignments[1].cluster # assignments[2].cluster

\* C7: the exported model is self-consistent: schema_version 1, k the requested
\* cluster count, feature_names the lexicographically sorted duplicate-free
\* union of the tracks' feature names, one scale entry per feature name, and
\* k centroid rows of len(feature_names) entries.
C7_ModelSelfConsistent ==
    Exported =>
        LET names == model.feature_names
        IN  /\ model.schema_version = 1
            /\ model.k = k
            /\ \A i, j \in DOMAIN names : i < j => StrLess(names[i], names[j])
            /\ {names[i] : i \in DOMAIN names}
                 = UNION {DOMAIN featurize_track(tracks[i]).value : i \in DOMAIN tracks}
            /\ Len(model.scale) = Len(names)
            /\ Len(model.centroids) = k
            /\ \A c \in DOMAIN model.centroids : Len(model.centroids[c]) = Len(names)

\* a model with classifier features beside the twelve attribute features and
\* two clusters has been exported
C7_Witness ==
    /\ Exported /\ k = 2
    /\ Len(model.feature_names) > 12
    /\ \E i \in DOMAIN tracks : DOMAIN feat_dicts[i] # {model.feature_names[j] : j \in 1..12}

\* C8: two runs with the same catalog, k and sample cap draw the same set of
\* track indices for the silhouette estimate and export the same estimate.
C8_SampleReproducible ==
    (Exported /\ prev.ran) => (idx = prev.idx /\ sil = prev.sil)

=============================================================================
